---- MODULE Spec2Model ----
(***************************************************************************)
(* Model of the ArcGIS python-toolbox tool CreateNetworkConnectivityFile   *)
(* (toolbox/scripts/CreateNetworkConnectivityFile.py).                     *)
(*                                                                         *)
(* The tool reads the (HydroID, NextDownID) table of a drainage line       *)
(* feature class and writes one CSV row per reach:                         *)
(*   HydroID, NextDownID (-1 -> 0), upstream count, upstream HydroIDs,     *)
(*   zero padding.                                                         *)
(* Two handlers are modelled: updateMessages (validation of the optional   *)
(* "Maximum Number of Upstream Reaches" parameter) and execute.            *)
(***************************************************************************)
EXTENDS Integers, Sequences, FiniteSets

(* ----------------------------- bounds ---------------------------------- *)

\* largest number of records in the input table
MaxReaches == 3

\* largest number of records in an input table that repeats a HydroID
MaxDupReaches == 2

\* HydroIDs are drawn from 0..MaxId
MaxId == 2

\* supplied parameter values run over every integer up to MaxSmallNbr
MaxSmallNbr == 1

(* ------------------------ program constants ---------------------------- *)

\* NextDownID value meaning "no next downstream" (line 130)
NoDownstream == -1

\* upper limit tested by updateMessages (line 102)
UpperLimit == 12

\* lower limit tested by updateMessages (line 102): max_nbr < 0
LowerLimit == 0

(* --------------------------- input domains ----------------------------- *)

\* Python None is the empty sequence, a supplied integer v is <<v>>
None == <<>>

Some(v) == <<v>>

HydroIds == 0..MaxId

\* NextDownID: the sentinel, one other negative value, and every HydroID
\* (an ID that is absent from the table matches no reach)
NextDownIds == (NoDownstream - 1)..MaxId

Records == [HydroID : HydroIds, NextDownID : NextDownIds]

TablesOfLen(n) == [1..n -> Records]

UniqueIds(table) ==
    \A i, j \in 1..Len(table) : table[i].HydroID = table[j].HydroID => i = j

\* HydroID is the key of the drainage line table, but nothing enforces it:
\* tables with unique HydroIDs up to MaxReaches records, and tables that
\* may repeat a HydroID up to MaxDupReaches records
Tables ==
    UNION {{t \in TablesOfLen(n) : UniqueIds(t)} : n \in 1..MaxReaches}
    \cup UNION {TablesOfLen(n) : n \in 1..MaxDupReaches}

\* values of parameters[2]: absent, below, at and above both limits,
\* and small values around the fan-ins the tables can have
MaxNbrValues ==
    {None} \cup {Some(v) : v \in (LowerLimit - 1)..MaxSmallNbr}
           \cup {Some(UpperLimit), Some(UpperLimit + 1)}

(* ------------------------------ state ---------------------------------- *)

VARIABLES
    np_table,            \* rows of the drainage line table, in input order
    max_nbr,              \* parameters[2].value
    param2_error,         \* parameters[2] carries an error message
    pc,                   \* "validate" -> "ready" -> "done"
    list_all,             \* execute: rows before padding
    max_count_Upstream,   \* execute: largest upstream count seen
    in_max_nbr_upstreams, \* execute: width used for padding
    csv_rows              \* rows written to the output file

vars == <<np_table, max_nbr, param2_error, pc, list_all,
          max_count_Upstream, in_max_nbr_upstreams, csv_rows>>

(* --------------------------- numpy helpers ----------------------------- *)

\* column np_table[stream_id]
IdColumn(table) == [i \in 1..Len(table) |-> table[i].HydroID]

RECURSIVE Insert(_, _)
Insert(s, x) ==
    IF s = <<>> THEN <<x>>
    ELSE IF x < Head(s) THEN <<x>> \o s
    ELSE <<Head(s)>> \o Insert(Tail(s), x)

RECURSIVE SortSeq(_)
SortSeq(s) ==
    IF s = <<>> THEN <<>> ELSE Insert(SortSeq(Tail(s)), Head(s))

\* mutant: the HydroID column is iterated as read, without NUM.sort
SortedHydroIds_Unsorted(table) == IdColumn(table)

\* NUM.sort(np_table[stream_id]): ascending, duplicates kept
SortedHydroIds(table) == SortSeq(IdColumn(table))

\* mutant: the selection comes out in reverse input order
RECURSIVE MaskSelect_Reversed(_, _)
MaskSelect_Reversed(table, mask) ==
    IF table = <<>> THEN <<>>
    ELSE MaskSelect_Reversed(Tail(table), Tail(mask))
         \o (IF Head(mask) THEN <<Head(table)>> ELSE <<>>)

\* boolean-mask selection table[mask], keeping input order
RECURSIVE MaskSelect(_, _)
MaskSelect(table, mask) ==
    IF table = <<>> THEN <<>>
    ELSE (IF Head(mask) THEN <<Head(table)>> ELSE <<>>)
         \o MaskSelect(Tail(table), Tail(mask))

\* mutant: a reach that is its own downstream is left out
ListUpstreamID_NoSelf(table, hydroid) ==
    IdColumn(MaskSelect(table,
        [i \in 1..Len(table) |-> /\ table[i].NextDownID = hydroid
                                 /\ table[i].HydroID # hydroid]))

\* np_table[np_table[next_down_id]==hydroid][stream_id]
ListUpstreamID(table, hydroid) ==
    IdColumn(MaskSelect(table,
        [i \in 1..Len(table) |-> table[i].NextDownID = hydroid]))

\* np_table[np_table[stream_id]==hydroid][next_down_id][0]
RawNextDownID(table, hydroid) ==
    MaskSelect(table,
        [i \in 1..Len(table) |-> table[i].HydroID = hydroid])[1].NextDownID

\* mutant: every negative nextDownID is replaced with 0
NextDownID_AnyNegative(table, hydroid) ==
    IF RawNextDownID(table, hydroid) < 0
    THEN 0 ELSE RawNextDownID(table, hydroid)

\* replace the nextDownID with 0 if it equals -1
NextDownID(table, hydroid) ==
    IF RawNextDownID(table, hydroid) = NoDownstream
    THEN 0 ELSE RawNextDownID(table, hydroid)

\* mutant: count_upstream is the length of the boolean mask, not of the
\* selection
RowList_CountMask(table, hydroid) ==
    <<hydroid, NextDownID(table, hydroid), Len(table)>>
        \o ListUpstreamID(table, hydroid)

\* NUM.concatenate([NUM.array([hydroid,nextDownID,count_upstream]),list_upstreamID])
RowList(table, hydroid) ==
    <<hydroid, NextDownID(table, hydroid), Len(ListUpstreamID(table, hydroid))>>
        \o ListUpstreamID(table, hydroid)

\* mutant: the loop visits only the HydroIDs that occur as a NextDownID
ListAll_DownstreamKeysOnly(table) ==
    LET ids  == SortedHydroIds(table)
        rows == [k \in 1..Len(ids) |-> RowList(table, ids[k])]
    IN  SelectSeq(rows, LAMBDA row : row[3] > 0)

\* the for loop over the sorted HydroIDs: list_all
ListAll(table) ==
    LET ids == SortedHydroIds(table)
    IN  [k \in 1..Len(ids) |-> RowList(table, ids[k])]

\* the running maximum kept by the loop, started at 0
RECURSIVE RunningMax(_, _)
RunningMax(rows, max_count) ==
    IF rows = <<>> THEN max_count
    ELSE RunningMax(Tail(rows),
                    IF Head(rows)[3] > max_count THEN Head(rows)[3] ELSE max_count)

\* max_count_Upstream after the loop that built rows
MaxCountUpstream(rows) == RunningMax(rows, 0)

\* mutant: the supplied value is ignored
Width_IgnoreSupplied(max_count, value) == max_count

\* if in_max_nbr_upstreams == None: in_max_nbr_upstreams = max_count_Upstream
Width(max_count, value) ==
    IF value = None THEN max_count ELSE value[1]

\* [0 for i in xrange(n)]: empty when n <= 0
Zeros(n) == [i \in 1..n |-> 0]

\* NUM.concatenate([row_list, zeros(in_max_nbr_upstreams - row_list[2])])
PaddedRow(row_list, width) == row_list \o Zeros(width - row_list[3])

\* for row_list in list_all: connectwriter.writerow(out)
WriteRows(rows, width) ==
    [k \in 1..Len(rows) |-> PaddedRow(rows[k], width)]

\* the file execute writes for a table and a parameter value
CsvRows(table, value) ==
    LET rows == ListAll(table)
    IN  WriteRows(rows, Width(MaxCountUpstream(rows), value))

(* ------------------------------ actions -------------------------------- *)

\* the test of updateMessages on parameters[2].value
OutOfRange(max_nbr_value) ==
    max_nbr_value < LowerLimit \/ max_nbr_value > UpperLimit

Init ==
    /\ np_table \in Tables
    /\ max_nbr \in MaxNbrValues
    /\ param2_error = FALSE
    /\ pc = "validate"
    /\ list_all = <<>>
    /\ max_count_Upstream = 0
    /\ in_max_nbr_upstreams = None
    /\ csv_rows = <<>>

\* updateMessages: parameters[2].altered holds exactly when a value is
\* supplied (ArcGIS resets altered when the value is blanked out)
UpdateMessages ==
    /\ pc = "validate"
    /\ param2_error' = (max_nbr # None /\ OutOfRange(max_nbr[1]))
    /\ pc' = "ready"
    /\ UNCHANGED <<np_table, max_nbr, list_all, max_count_Upstream,
                   in_max_nbr_upstreams, csv_rows>>

\* execute: ArcGIS runs it only while no parameter carries an error message
Execute ==
    /\ pc = "ready"
    /\ ~param2_error
    /\ list_all' = ListAll(np_table)
    /\ max_count_Upstream' = MaxCountUpstream(list_all')
    /\ in_max_nbr_upstreams' = Some(Width(max_count_Upstream', max_nbr))
    /\ csv_rows' = WriteRows(list_all', in_max_nbr_upstreams'[1])
    /\ pc' = "done"
    /\ UNCHANGED <<np_table, max_nbr, param2_error>>

Next == UpdateMessages \/ Execute

Spec == Init /\ [][Next]_vars

(* ---------------------- vocabulary of the properties ------------------- *)

Done == pc = "done"

Supplied == max_nbr # None

\* the width execute padded with
UsedWidth == in_max_nbr_upstreams[1]

\* positions of the records that flow directly into the reach with this id
UpstreamPositions(table, id) ==
    {i \in 1..Len(table) : table[i].NextDownID = id}

FanIn(table, id) == Cardinality(UpstreamPositions(table, id))

\* the largest fan-in over the reaches of the table
MaxFanIn(table) ==
    CHOOSE m \in 0..Len(table) :
        /\ \A i \in 1..Len(table) : FanIn(table, table[i].HydroID) <= m
        /\ m = 0 \/ \E i \in 1..Len(table) : FanIn(table, table[i].HydroID) = m

\* some reach has more direct upstream reaches than the supplied value
Overflow ==
    /\ Supplied
    /\ \E i \in 1..Len(np_table) : FanIn(np_table, np_table[i].HydroID) > max_nbr[1]

Normalized(down) == IF down = NoDownstream THEN 0 ELSE down

\* the j-th upstream HydroID of id in input order
NthUpstream(table, id, j) ==
    LET pos == UpstreamPositions(table, id)
    IN  table[CHOOSE i \in pos : Cardinality({m \in pos : m <= i}) = j].HydroID

\* the row the reach at position i is to get under the given width
ExpectedRow(table, i, width) ==
    LET id    == table[i].HydroID
        count == FanIn(table, id)
    IN  <<id, Normalized(table[i].NextDownID), count>>
        \o [j \in 1..count |-> NthUpstream(table, id, j)]
        \o [j \in 1..(width - count) |-> 0]

FirstColumn(rows) == [k \in 1..Len(rows) |-> rows[k][1]]

RECURSIVE SumCounts(_)
SumCounts(rows) ==
    IF rows = <<>> THEN 0 ELSE Head(rows)[3] + SumCounts(Tail(rows))

\* all permutations of 1..n, for n up to the longest table
LongestTable == IF MaxReaches > MaxDupReaches THEN MaxReaches ELSE MaxDupReaches

Permutations ==
    [n \in 0..LongestTable |->
        {p \in [1..n -> 1..n] : \A i, j \in 1..n : p[i] = p[j] => i = j}]

InputAscending(table) ==
    \A i \in 1..(Len(table) - 1) : table[i].HydroID < table[i + 1].HydroID

Permuted(table, p) == [i \in 1..Len(table) |-> table[p[i]]]

(* ------------------------------ claims --------------------------------- *)

\* C1: when a value is supplied and some reach has more direct upstream
\* reaches than that value, execute does not finish having written rows.
C1_OverflowFails == ~(Done /\ Overflow /\ csv_rows # <<>>)

\* C2: for unique HydroIDs execute writes one row per reach: as many rows as
\* records, and every HydroID exactly once in the first column.
C2_OneRowPerReach ==
    (Done /\ UniqueIds(np_table)) =>
        /\ Len(csv_rows) = Len(np_table)
        /\ \A i \in 1..Len(np_table) :
              Cardinality({k \in 1..Len(csv_rows) :
                              csv_rows[k][1] = np_table[i].HydroID}) = 1

C2_Witness ==
    /\ Done
    /\ UniqueIds(np_table)
    /\ Len(np_table) = 3
    /\ \E i \in 1..Len(np_table) : FanIn(np_table, np_table[i].HydroID) = 0
    /\ \E i \in 1..Len(np_table) : FanIn(np_table, np_table[i].HydroID) = 2

\* C3: for unique HydroIDs the rows are strictly ascending by first column,
\* and the first column is the same for every permutation of the records.
\* Every set of records with unique HydroIDs has exactly one arrangement
\* in ascending HydroID order; all its permutations are compared with it.
C3_AscendingAnyInputOrder ==
    (Done /\ UniqueIds(np_table)) =>
        /\ \A k \in 1..(Len(csv_rows) - 1) : csv_rows[k][1] < csv_rows[k + 1][1]
        /\ InputAscending(np_table) =>
              \A p \in Permutations[Len(np_table)] :
                  FirstColumn(CsvRows(Permuted(np_table, p), max_nbr))
                      = FirstColumn(csv_rows)

C3_Witness ==
    /\ Done
    /\ UniqueIds(np_table)
    /\ Len(np_table) = 3
    /\ np_table[1].HydroID > np_table[3].HydroID
    /\ np_table[3].HydroID > np_table[2].HydroID

\* C4: all rows written have the same length 3 + width, and in every row
\* the upstream count is at most width, whether or not a value is supplied.
C4_FixedRowLength ==
    Done => \A k \in 1..Len(csv_rows) :
                /\ Len(csv_rows[k]) = 3 + UsedWidth
                /\ csv_rows[k][3] <= UsedWidth

\* C5: the width is the supplied value whenever one is supplied, otherwise
\* the largest fan-in (0 when no reach has an upstream reach); a row whose
\* count fits the width has 3 + width columns, zeros after its upstream IDs.
C5_WidthPolicy ==
    Done =>
        /\ UsedWidth = (IF Supplied THEN max_nbr[1] ELSE MaxFanIn(np_table))
        /\ \A k \in 1..Len(csv_rows) :
              LET row    == csv_rows[k]
                  id     == row[1]
                  expect == IF Supplied THEN max_nbr[1] ELSE MaxFanIn(np_table)
              IN  FanIn(np_table, id) <= expect =>
                      /\ Len(row) = 3 + expect
                      /\ \A j \in (3 + FanIn(np_table, id) + 1)..Len(row) : row[j] = 0

C5_Witness ==
    /\ Done
    /\ Supplied
    /\ MaxFanIn(np_table) = 2
    /\ max_nbr[1] > MaxFanIn(np_table)

\* C6 as stated: for unique HydroIDs the upstream counts sum to the number
\* of reaches whose NextDownID is the HydroID of some other reach.
C6_EdgesToOtherReaches ==
    (Done /\ UniqueIds(np_table)) =>
        SumCounts(csv_rows) =
            Cardinality({i \in 1..Len(np_table) :
                \E j \in 1..Len(np_table) :
                    j # i /\ np_table[i].NextDownID = np_table[j].HydroID})

\* C6 amended: for unique HydroIDs the upstream counts sum to the number of
\* reaches whose NextDownID is the HydroID of some reach of the table, the
\* reach itself included; a reach whose NextDownID matches no HydroID is
\* listed among the upstream IDs of no row.
C6_EdgesCountedOnce ==
    (Done /\ UniqueIds(np_table)) =>
        /\ SumCounts(csv_rows) =
              Cardinality({i \in 1..Len(np_table) :
                  \E j \in 1..Len(np_table) :
                      np_table[i].NextDownID = np_table[j].HydroID})
        /\ \A i \in 1..Len(np_table) :
              (\A j \in 1..Len(np_table) :
                   np_table[i].NextDownID # np_table[j].HydroID) =>
              \A k \in 1..Len(csv_rows) :
                  \A c \in 4..(3 + csv_rows[k][3]) :
                      csv_rows[k][c] # np_table[i].HydroID

C6_Witness ==
    /\ Done
    /\ UniqueIds(np_table)
    /\ Len(np_table) = 3
    /\ \E i \in 1..3 : np_table[i].NextDownID = np_table[i].HydroID
    /\ \E i, j \in 1..3 : i # j /\ np_table[i].NextDownID = np_table[j].HydroID
    /\ \E i \in 1..3 : \A j \in 1..3 : np_table[i].NextDownID # np_table[j].HydroID

\* C7: the second column of every row is 0 when the NextDownID of the row's
\* reach is -1, and that NextDownID unchanged for every other value.
C7_SentinelOnly ==
    Done =>
        /\ \A k \in 1..Len(csv_rows) :
              \E i \in 1..Len(np_table) :
                  /\ np_table[i].HydroID = csv_rows[k][1]
                  /\ csv_rows[k][2] = Normalized(np_table[i].NextDownID)
        /\ UniqueIds(np_table) =>
              \A i \in 1..Len(np_table) :
                  \E k \in 1..Len(csv_rows) :
                      /\ csv_rows[k][1] = np_table[i].HydroID
                      /\ csv_rows[k][2] = Normalized(np_table[i].NextDownID)

C7_Witness ==
    /\ Done
    /\ UniqueIds(np_table)
    /\ \E i \in 1..Len(np_table) : np_table[i].NextDownID = NoDownstream
    /\ \E i \in 1..Len(np_table) : np_table[i].NextDownID < NoDownstream
    /\ \E i, j \in 1..Len(np_table) :
          np_table[i].NextDownID = np_table[j].HydroID

\* C8: when no HydroID is 0, the upstream count of every row equals the
\* number of non-zero values after the third column, for every width.
C8_CountIsNonZeroTail ==
    (Done /\ \A i \in 1..Len(np_table) : np_table[i].HydroID # 0) =>
        \A k \in 1..Len(csv_rows) :
            csv_rows[k][3] =
                Cardinality({c \in 4..Len(csv_rows[k]) : csv_rows[k][c] # 0})

C8_Witness ==
    /\ Done
    /\ \A i \in 1..Len(np_table) : np_table[i].HydroID # 0
    /\ \E k \in 1..Len(csv_rows) :
          csv_rows[k][3] >= 1 /\ Len(csv_rows[k]) > 3 + csv_rows[k][3]
    /\ \E k \in 1..Len(csv_rows) : csv_rows[k][3] = 0
    /\ Supplied

\* C9: for unique HydroIDs and each reach whose fan-in is at most the width,
\* the reach's row is [id, normalized NextDownID, count], then the HydroIDs
\* of exactly the records whose NextDownID is this id, in input order, then
\* width - count zeros.
C9_RowLayout ==
    (Done /\ UniqueIds(np_table)) =>
        \A i \in 1..Len(np_table) :
            FanIn(np_table, np_table[i].HydroID) <= UsedWidth =>
                /\ \E k \in 1..Len(csv_rows) :
                      csv_rows[k][1] = np_table[i].HydroID
                /\ \A k \in 1..Len(csv_rows) :
                      csv_rows[k][1] = np_table[i].HydroID =>
                          csv_rows[k] = ExpectedRow(np_table, i, UsedWidth)

C9_Witness ==
    /\ Done
    /\ UniqueIds(np_table)
    /\ UsedWidth > 2
    /\ \E i \in 1..Len(np_table) :
          LET pos == UpstreamPositions(np_table, np_table[i].HydroID)
          IN  /\ Cardinality(pos) = 2
              /\ \E a, b \in pos :
                    a < b /\ np_table[a].HydroID > np_table[b].HydroID

\* C10: updateMessages puts an error on the parameter for every supplied
\* value outside [1, 12] and none for a value inside, so execute never runs
\* with a supplied value outside [1, 12].
C10_RangeOneToTwelve ==
    /\ (pc # "validate" /\ Supplied) =>
          (param2_error <=> max_nbr[1] \notin 1..12)
    /\ (Done /\ Supplied) => max_nbr[1] \in 1..12

====
